---------------------------- MODULE Spec2Model ----------------------------
(***************************************************************************)
(* Model of cmd/xcompose: the path-keyed nested mapping built by insert    *)
(* and its serializer format/quote (src/cmd/xcompose/xcompose.go).         *)
(*                                                                         *)
(* A Go string is modelled as the sequence of its code points.  Go orders  *)
(* strings by their UTF-8 bytes, which is the order of the code point      *)
(* sequences for valid strings.                                            *)
(*                                                                         *)
(* A value of the Go type interface{} stored in a mapping is a record      *)
(*   [kind |-> "string", val |-> s, m |-> <<>>]   a string (a leaf)        *)
(*   [kind |-> "map",    val |-> <<>>, m |-> f]   a map[string]interface{} *)
(* where f is a function from the keys present to such records.            *)
(***************************************************************************)
EXTENDS Integers, Sequences, FiniteSets, TLC

VARIABLES
    tree,     \* the mapping under construction (buildDict's mapping, the test's gotMapping)
    prev,     \* the mapping as it was before the latest insert call
    last,     \* the arguments of the latest insert call
    written,  \* for every path insert was called with, the value of the latest such call
    n,        \* the number of insert calls made so far
    rep,      \* how the latest insert call repeats the one before it: "none", "path" or "pair"
    pc,       \* "build", "formatted", "quote" or "quoted"
    out,      \* what format did: the sink after the call and the error returned
    qin,      \* the argument of quote
    qout      \* the result of quote

vars == <<tree, prev, last, written, n, rep, pc, out, qin, qout>>

---------------------------------------------------------------------------
(* Bounds *)

\* insert calls per behaviour of Spec
MaxOps == 3
\* segments per path
MaxPathLen == 2
\* insert calls (lines of the Compose file that reach line 134) per behaviour of SpecFormat
MaxLines == 3
\* the sink's failing write is one of the first MaxFail writes
MaxFail == 9
\* code points per argument of quote in SpecQuote
MaxStrLen == 2

\* path segments: "a", "b"
KeyA == <<97>>
KeyB == <<98>>
Keys == {KeyA, KeyB}
\* leaf values: "x", "y"
ValX == <<120>>
ValY == <<121>>
Vals == {ValX, ValY}
Paths == UNION {[1..k -> Keys] : k \in 0..MaxPathLen}

---------------------------------------------------------------------------
(* The mapping *)

Nil == "nil"
NilMap == [kind |-> "nil", val |-> <<>>, m |-> <<>>]
Absent == [kind |-> "absent", val |-> <<>>, m |-> <<>>]
Leaf(v) == [kind |-> "string", val |-> v, m |-> <<>>]
Interior(f) == [kind |-> "map", val |-> <<>>, m |-> f]
\* make(map[string]interface{})
MakeMap == Interior([k \in {} |-> Absent])

\* dst[key] = node
MapSet(dst, key, node) == [dst EXCEPT !.m = (key :> node) @@ dst.m]

\* child, ok := dst[key]
MapHas(dst, key) == key \in DOMAIN dst.m

\* A slip in the length-1 branch: a value already present at the key is kept.
RECURSIVE insertKeepFirst(_, _, _)
insertKeepFirst(dst, val, path) ==
    IF Len(path) = 0 THEN dst
    ELSE IF dst.kind = "nil" THEN dst
    ELSE IF Len(path) = 1
        THEN IF MapHas(dst, path[1]) THEN dst ELSE MapSet(dst, path[1], Leaf(val))
    ELSE LET ok == MapHas(dst, path[1])
             child == IF ok THEN dst.m[path[1]] ELSE MakeMap
             dst1 == IF ok THEN dst ELSE MapSet(dst, path[1], child)
         IN  IF child.kind # "map" THEN dst1
             ELSE MapSet(dst1, path[1], insertKeepFirst(child, val, Tail(path)))

\* A slip in the length-1 branch: the value is appended to a string already there.
RECURSIVE insertMerge(_, _, _)
insertMerge(dst, val, path) ==
    IF Len(path) = 0 THEN dst
    ELSE IF dst.kind = "nil" THEN dst
    ELSE IF Len(path) = 1
        THEN IF MapHas(dst, path[1]) /\ dst.m[path[1]].kind = "string"
             THEN MapSet(dst, path[1], Leaf(dst.m[path[1]].val \o val))
             ELSE MapSet(dst, path[1], Leaf(val))
    ELSE LET ok == MapHas(dst, path[1])
             child == IF ok THEN dst.m[path[1]] ELSE MakeMap
             dst1 == IF ok THEN dst ELSE MapSet(dst, path[1], child)
         IN  IF child.kind # "map" THEN dst1
             ELSE MapSet(dst1, path[1], insertMerge(child, val, Tail(path)))

\* A slip at lines 169-173: a child that is not a mapping is replaced by a new one.
RECURSIVE insertOverLeaf(_, _, _)
insertOverLeaf(dst, val, path) ==
    IF Len(path) = 0 THEN dst
    ELSE IF dst.kind = "nil" THEN dst
    ELSE IF Len(path) = 1 THEN MapSet(dst, path[1], Leaf(val))
    ELSE LET ok == MapHas(dst, path[1]) /\ dst.m[path[1]].kind = "map"
             child == IF ok THEN dst.m[path[1]] ELSE MakeMap
             dst1 == IF ok THEN dst ELSE MapSet(dst, path[1], child)
         IN  MapSet(dst1, path[1], insertOverLeaf(child, val, Tail(path)))

\* A slip at line 178: the recursion drops one segment too many (path[2:]).
RECURSIVE insertSkip(_, _, _)
insertSkip(dst, val, path) ==
    IF Len(path) = 0 THEN dst
    ELSE IF dst.kind = "nil" THEN dst
    ELSE IF Len(path) = 1 THEN MapSet(dst, path[1], Leaf(val))
    ELSE LET ok == MapHas(dst, path[1])
             child == IF ok THEN dst.m[path[1]] ELSE MakeMap
             dst1 == IF ok THEN dst ELSE MapSet(dst, path[1], child)
         IN  IF child.kind # "map" THEN dst1
             ELSE MapSet(dst1, path[1], insertSkip(child, val, Tail(Tail(path))))

\* func insert(dst map[string]interface{}, val string, path ...string), as the
\* mapping the caller holds after the call.  A nil dst is replaced by a mapping
\* local to the call, so the caller's nil mapping stays as it is.
RECURSIVE insert(_, _, _)
insert(dst, val, path) ==
    IF Len(path) = 0 THEN dst
    ELSE IF dst.kind = "nil" THEN dst
    ELSE IF Len(path) = 1 THEN MapSet(dst, path[1], Leaf(val))
    ELSE LET ok == MapHas(dst, path[1])
             child == IF ok THEN dst.m[path[1]] ELSE MakeMap
             dst1 == IF ok THEN dst ELSE MapSet(dst, path[1], child)
         IN  IF child.kind # "map" THEN dst1
             ELSE MapSet(dst1, path[1], insert(child, val, Tail(path)))

---------------------------------------------------------------------------
(* Reading a mapping *)

\* The node a path resolves to: the mapping itself for the empty path, Absent
\* when a segment is missing or a string is met before the path ends.
RECURSIVE Resolve(_, _)
Resolve(node, path) ==
    IF Len(path) = 0 THEN node
    ELSE IF node.kind # "map" THEN Absent
    ELSE IF ~MapHas(node, path[1]) THEN Absent
    ELSE Resolve(node.m[path[1]], Tail(path))

StrictPrefix(p, q) == Len(p) < Len(q) /\ SubSeq(q, 1, Len(p)) = p

StrictPrefixes(p) == {SubSeq(p, 1, k) : k \in 0..(Len(p) - 1)}

\* Some strict prefix of the path maps to a string.
LeafOnStrictPrefix(node, path) ==
    \E q \in StrictPrefixes(path) : Len(q) > 0 /\ Resolve(node, q).kind = "string"

\* The paths of a mapping that resolve to a string, each with its string.
RECURSIVE LeavesOf(_)
LeavesOf(node) ==
    UNION {
        IF node.m[k].kind = "string" THEN {<<<<k>>, node.m[k].val>>}
        ELSE IF node.m[k].kind = "map"
            THEN {<<<<k>> \o e[1], e[2]>> : e \in LeavesOf(node.m[k])}
        ELSE {} : k \in DOMAIN node.m}

\* The paths that resolve to a mapping with no key, the root aside.
RECURSIVE EmptyInteriors(_)
EmptyInteriors(node) ==
    UNION {
        IF node.m[k].kind # "map" THEN {}
        ELSE IF DOMAIN node.m[k].m = {} THEN {<<k>>}
        ELSE {<<k>> \o e : e \in EmptyInteriors(node.m[k])} : k \in DOMAIN node.m}

---------------------------------------------------------------------------
(* Strings *)

\* a < b for Go strings
LexLess(a, b) ==
    \E i \in 1..(Len(a) + 1) :
        /\ i <= Len(b)
        /\ SubSeq(a, 1, i - 1) = SubSeq(b, 1, i - 1)
        /\ (i = Len(a) + 1 \/ a[i] < b[i])

\* strings.HasPrefix(s, prefix)
HasPrefix(s, prefix) == Len(s) >= Len(prefix) /\ SubSeq(s, 1, Len(prefix)) = prefix

HasSuffix(s, suffix) ==
    Len(s) >= Len(suffix) /\ SubSeq(s, Len(s) - Len(suffix) + 1, Len(s)) = suffix

\* strconv.IsPrint, for the runes of the model: of these the printable ones are
\* the ASCII ones from the space to the tilde.
IsPrint(r) == r >= 32 /\ r <= 126

\* lowerhex[d]
LowerHex(d) == IF d < 10 THEN 48 + d ELSE 87 + d

\* The digits lowerhex[r>>s&0xF] for s from 4*(digits-1) down to 0.
HexDigits(r, digits) == [i \in 1..digits |-> LowerHex((r \div (16 ^ (digits - i))) % 16)]

\* What strconv.Quote writes for one rune of a valid string.
EscapedRune(r) ==
    IF r = 34 \/ r = 92 THEN <<92, r>>
    ELSE IF IsPrint(r) THEN <<r>>
    ELSE IF r = 7 THEN <<92, 97>>
    ELSE IF r = 8 THEN <<92, 98>>
    ELSE IF r = 12 THEN <<92, 102>>
    ELSE IF r = 10 THEN <<92, 110>>
    ELSE IF r = 13 THEN <<92, 114>>
    ELSE IF r = 9 THEN <<92, 116>>
    ELSE IF r = 11 THEN <<92, 118>>
    ELSE IF r < 32 \/ r = 127 THEN <<92, 120>> \o HexDigits(r, 2)
    ELSE IF r < 65536 THEN <<92, 117>> \o HexDigits(r, 4)
    ELSE <<92, 85>> \o HexDigits(r, 8)

RECURSIVE EscapedRunes(_)
EscapedRunes(s) ==
    IF Len(s) = 0 THEN <<>> ELSE EscapedRune(Head(s)) \o EscapedRunes(Tail(s))

\* strconv.Quote(s)
StrconvQuote(s) == <<34>> \o EscapedRunes(s) \o <<34>>

\* unicode.ToUpper, for the runes strconv.Quote writes for the runes of the model
ToUpperRune(r) == IF r >= 97 /\ r <= 122 THEN r - 32 ELSE r

\* strings.ToUpper(s)
ToUpper(s) == [i \in 1..Len(s) |-> ToUpperRune(s[i])]

\* `"\u`
QuoteBackslashU == <<34, 92, 117>>

\* A slip at line 225: the prefix tested lacks the opening quote, so it never matches.
quoteNoUpper(s) == StrconvQuote(s)

\* func quote(s string) string
quote(s) ==
    LET q == StrconvQuote(s)
    IN  IF HasPrefix(q, QuoteBackslashU) THEN ToUpper(q) ELSE q

---------------------------------------------------------------------------
(* The sink and format *)

\* "{" and the newline Fprintln adds
OpenBrace == <<123, 10>>
CloseBrace == <<125>>
Semicolon == <<59>>
Newline == <<10>>
Assign == <<32, 61, 32>>
\* `("insertText:", `
InsertTextOpen == <<40, 34, 105, 110, 115, 101, 114, 116, 84, 101, 120, 116, 58, 34, 44, 32>>
\* `);` and a newline
InsertTextClose == <<41, 59, 10>>

\* strings.Repeat("\t", count)
Tabs(count) == [i \in 1..count |-> 9]

\* The Fprintf of line 192
KeyLine(depth, k) == Tabs(depth + 1) \o quote(k) \o Assign

\* The Fprintf of line 198
LeafLine(val) == InsertTextOpen \o quote(val) \o InsertTextClose

\* The Fprintf of line 209
CloseLine(depth) == Tabs(depth) \o CloseBrace

\* An io.Writer whose failAt-th Write fails with failErr (0: none fails).  The log
\* holds every Write made, with what it returned.
Sink(failAt, failErr) == [log |-> <<>>, failAt |-> failAt, failErr |-> failErr]

\* One call of w.Write(p), which every Fprint, Fprintf and Fprintln makes once:
\* the writer after it and the error returned.
Write(w, p) ==
    LET e == IF Len(w.log) + 1 = w.failAt THEN w.failErr ELSE Nil
    IN  [w |-> [w EXCEPT !.log = Append(@, [data |-> p, err |-> e])], err |-> e]

\* for k := range dict: the keys in the order the map iteration yields them, which
\* Go leaves unspecified; iter is that order over all keys.
RangeKeys(dict, iter) == SelectSeq(iter, LAMBDA k : MapHas(dict, k))

\* sort.Strings(keys)
RECURSIVE SortStrings(_)
SortStrings(keys) ==
    IF Len(keys) <= 1 THEN keys
    ELSE LET rest == SortStrings(Tail(keys))
             lo == SelectSeq(rest, LAMBDA k : LexLess(k, Head(keys)))
             hi == SelectSeq(rest, LAMBDA k : ~LexLess(k, Head(keys)))
         IN  lo \o <<Head(keys)>> \o hi

\* Line 190 left out.
KeysUnsorted(dict, iter) == RangeKeys(dict, iter)

\* Lines 186-190
SortedKeys(dict, iter) == SortStrings(RangeKeys(dict, iter))

\* if depth != 0, taken the other way round
SemicolonAtRoot(depth) == depth = 0

\* Line 213
NeedsSemicolon(depth) == depth # 0

RECURSIVE format(_, _, _, _)
RECURSIVE formatEntries(_, _, _, _, _)
RECURSIVE formatEntriesDropErr(_, _, _, _, _)

\* The loop with the check of lines 204-206 left out.
formatEntriesDropErr(w, dict, depth, keys, iter) ==
    IF Len(keys) = 0 THEN [w |-> w, err |-> Nil]
    ELSE LET k == Head(keys)
             r1 == Write(w, KeyLine(depth, k))
         IN  IF r1.err # Nil THEN r1
             ELSE LET val == dict.m[k]
                      r2 == IF val.kind = "string" THEN Write(r1.w, LeafLine(val.val))
                            ELSE IF val.kind = "map"
                                THEN [w |-> format(r1.w, val, depth + 1, iter).w, err |-> Nil]
                            ELSE [w |-> r1.w, err |-> Nil]
                  IN  IF r2.err # Nil THEN r2
                      ELSE formatEntriesDropErr(r2.w, dict, depth, Tail(keys), iter)

\* for _, k := range keys { ... }, lines 191-208: the writer after the loop and
\* nil, or the writer and the error at the return the loop makes.
formatEntries(w, dict, depth, keys, iter) ==
    IF Len(keys) = 0 THEN [w |-> w, err |-> Nil]
    ELSE LET k == Head(keys)
             r1 == Write(w, KeyLine(depth, k))
         IN  IF r1.err # Nil THEN r1
             ELSE LET val == dict.m[k]
                      r2 == IF val.kind = "string" THEN Write(r1.w, LeafLine(val.val))
                            ELSE IF val.kind = "map" THEN format(r1.w, val, depth + 1, iter)
                            ELSE [w |-> r1.w, err |-> Nil]
                  IN  IF r2.err # Nil THEN r2
                      ELSE formatEntries(r2.w, dict, depth, Tail(keys), iter)

\* func format(w io.Writer, dict map[string]interface{}, depth int) error: the
\* writer after the call and the error returned.
format(w, dict, depth, iter) ==
    LET r1 == Write(w, OpenBrace)
    IN  IF r1.err # Nil THEN r1
        ELSE LET r2 == formatEntries(r1.w, dict, depth, SortedKeys(dict, iter), iter)
             IN  IF r2.err # Nil THEN r2
                 ELSE LET r3 == Write(r2.w, CloseLine(depth))
                      IN  IF r3.err # Nil THEN r3
                          ELSE LET r4 == IF NeedsSemicolon(depth)
                                         THEN Write(r3.w, Semicolon)
                                         ELSE [w |-> r3.w, err |-> Nil]
                               IN  IF r4.err # Nil THEN r4
                                   ELSE Write(r4.w, Newline)

---------------------------------------------------------------------------
(* Building the mapping: Spec *)

NoCall == [path |-> <<>>, val |-> <<>>]
NoOut == [w |-> Sink(0, Nil), err |-> Nil]

Init ==
    /\ tree = MakeMap
    /\ prev = MakeMap
    /\ last = NoCall
    /\ written = [p \in {} |-> <<>>]
    /\ n = 0
    /\ rep = "none"
    /\ pc = "build"
    /\ out = NoOut
    /\ qin = <<>>
    /\ qout = <<>>

\* insert(gotMapping, s.val, s.path...)
Insert(path, val) ==
    /\ pc = "build"
    /\ n < MaxOps
    /\ tree' = insert(tree, val, path)
    /\ prev' = tree
    /\ last' = [path |-> path, val |-> val]
    /\ written' = (path :> val) @@ written
    /\ n' = n + 1
    /\ rep' = IF n = 0 \/ path # last.path THEN "none"
              ELSE IF val # last.val THEN "path" ELSE "pair"
    /\ UNCHANGED <<pc, out, qin, qout>>

Next == \E path \in Paths, val \in Vals : Insert(path, val)

Spec == Init /\ [][Next]_vars

---------------------------------------------------------------------------
(* Building and serializing: SpecFormat *)

\* path segments: "a", "ab" and the zero width space U+200B
FmtKeys == {<<97>>, <<97, 98>>, <<8203>>}
\* the segments a path has after its first: "a" and U+200B
FmtSubKeys == {<<97>>, <<8203>>}
\* the leaf value `x"`
FmtVal == <<120, 34>>
FmtPaths ==
    {p \in UNION {[1..k -> FmtKeys] : k \in 1..MaxPathLen} :
        \A i \in 2..Len(p) : p[i] \in FmtSubKeys}

\* The orders a map iteration can yield the keys in.
Iters == {f \in [1..Cardinality(FmtKeys) -> FmtKeys] :
             \A i \in DOMAIN f, j \in DOMAIN f : f[i] = f[j] => i = j}

\* The error a failing Write of the sink returns.
Errs == {"EIO"}

\* insert(mapping, val, path...), line 134 of buildDict
BuildDictLine(path, val) ==
    /\ pc = "build"
    /\ n < MaxLines
    /\ tree' = insert(tree, val, path)
    /\ n' = n + 1
    /\ UNCHANGED <<prev, last, written, rep, pc, out, qin, qout>>

\* err := format(w, buildDict(user, nil), 0), line 83 of main; the test's
\* format(&buf, gotMapping, 0)
Format(failAt, failErr, iter) ==
    /\ pc = "build"
    /\ out' = format(Sink(failAt, failErr), tree, 0, iter)
    /\ pc' = "formatted"
    /\ UNCHANGED <<tree, prev, last, written, n, rep, qin, qout>>

NextFormat ==
    \/ \E path \in FmtPaths : BuildDictLine(path, FmtVal)
    \/ \E iter \in Iters : Format(0, Nil, iter)
    \/ \E failAt \in 1..MaxFail, failErr \in Errs, iter \in Iters :
           Format(failAt, failErr, iter)

SpecFormat == Init /\ [][NextFormat]_vars

---------------------------------------------------------------------------
(* Quoting: SpecQuote *)

\* a, the double quote, the backslash, the newline, U+0001, U+200B, U+E0001
QuoteRunes == {97, 34, 92, 10, 1, 8203, 917505}
QuoteStrings == UNION {[1..k -> QuoteRunes] : k \in 0..MaxStrLen}

InitQuote ==
    /\ tree = MakeMap
    /\ prev = MakeMap
    /\ last = NoCall
    /\ written = [p \in {} |-> <<>>]
    /\ n = 0
    /\ rep = "none"
    /\ pc = "quote"
    /\ out = NoOut
    /\ qin \in QuoteStrings
    /\ qout = <<>>

\* quote(k), quote(val)
QuoteCall ==
    /\ pc = "quote"
    /\ qout' = quote(qin)
    /\ pc' = "quoted"
    /\ UNCHANGED <<tree, prev, last, written, n, rep, out, qin>>

NextQuote == QuoteCall

SpecQuote == InitQuote /\ [][NextQuote]_vars

---------------------------------------------------------------------------
(* Claims about insert, under Spec *)

\* The latest call had a path of more than one segment, a strict prefix of
\* which mapped to a string when the call was made.
Collided == n > 0 /\ Len(last.path) > 1 /\ LeafOnStrictPrefix(prev, last.path)

\* C1: an insert whose path has more than one segment and a strict prefix mapping
\* to a string leaves the whole mapping as it was; inserting (["a"], "x") and
\* then (["a","b"], "y") leaves "a" mapped to the string "x".
CollisionPreserved ==
    /\ Collided => tree = prev
    /\ insert(insert(MakeMap, ValX, <<KeyA>>), ValY, <<KeyA, KeyB>>)
           = Interior(KeyA :> Leaf(ValX))

CollisionHappened == Collided /\ tree = prev /\ n > 1

\* The path of the first of two insert calls with different paths.
FirstPath == CHOOSE p \in DOMAIN written : p # last.path

TwoPaths == n = 2 /\ DOMAIN written # {last.path}

\* C2 as stated: after two inserts into the empty mapping with non-empty paths,
\* one a strict prefix of the other in either direction, the mapping is the one
\* the first insert left.
FirstInsertionWins ==
    (/\ TwoPaths
     /\ Len(FirstPath) > 0
     /\ Len(last.path) > 0
     /\ (StrictPrefix(FirstPath, last.path) \/ StrictPrefix(last.path, FirstPath)))
        => tree = prev

\* C2 as amended: the first insert wins when its path is a non-empty strict prefix
\* of the second's; when the second's path is a non-empty strict prefix of the
\* first's, the second insert puts its string there in place of the mapping the
\* first one built.
FirstInsertionWinsUnderLeaf ==
    /\ (TwoPaths /\ Len(FirstPath) > 0 /\ StrictPrefix(FirstPath, last.path))
           => tree = prev
    /\ (TwoPaths /\ Len(last.path) > 0 /\ StrictPrefix(last.path, FirstPath))
           => /\ Resolve(prev, last.path).kind = "map"
              /\ Resolve(tree, last.path) = Leaf(last.val)
              /\ Resolve(tree, FirstPath) = Absent

FirstInsertionWon ==
    TwoPaths /\ Len(FirstPath) > 0 /\ StrictPrefix(FirstPath, last.path) /\ tree = prev

\* C3: an insert with a non-empty path p, no strict prefix of which maps to a
\* string, leaves p resolving to the string inserted, whatever was at p before;
\* so after (p, v1) and then (p, v2), p resolves to v2.
Overwrite ==
    (n > 0 /\ Len(last.path) > 0 /\ ~LeafOnStrictPrefix(prev, last.path))
        => Resolve(tree, last.path) = Leaf(last.val)

Overwritten ==
    /\ rep = "path"
    /\ ~LeafOnStrictPrefix(prev, last.path)
    /\ Resolve(prev, last.path).kind = "string"
    /\ Resolve(prev, last.path).val # last.val
    /\ Resolve(tree, last.path) = Leaf(last.val)

\* No path insert was called with is empty or a strict prefix of another.
PrefixFree ==
    /\ <<>> \notin DOMAIN written
    /\ \A p \in DOMAIN written, q \in DOMAIN written : ~StrictPrefix(p, q)

\* The orders in which the paths insert was called with can be taken.
Orders == {f \in [1..Cardinality(DOMAIN written) -> DOMAIN written] :
              \A i \in DOMAIN f, j \in DOMAIN f : f[i] = f[j] => i = j}

\* The mapping built from the empty one by inserting the paths in the given
\* order, each with the value of the latest call made with it.
RECURSIVE Build(_, _)
Build(ord, k) ==
    IF k = 0 THEN MakeMap
    ELSE insert(Build(ord, k - 1), written[ord[k]], ord[k])

\* C4: after inserts whose paths are non-empty and not strict prefixes of one
\* another, the strings of the mapping are those of the latest insert at each
\* path and no others, every strict prefix of an inserted path is one mapping
\* node, and inserting the distinct paths in any order builds the same mapping.
IndependentLeaves ==
    PrefixFree =>
        /\ LeavesOf(tree) = {<<p, written[p]>> : p \in DOMAIN written}
        /\ \A p \in DOMAIN written : \A q \in StrictPrefixes(p) :
               Resolve(tree, q).kind = "map"
        /\ \A ord \in Orders : Build(ord, Len(ord)) = tree

SharedInterior ==
    /\ PrefixFree
    /\ n > Cardinality(DOMAIN written)
    /\ \E p \in DOMAIN written, q \in DOMAIN written :
           p # q /\ Len(p) > 1 /\ Len(q) > 1 /\ p[1] = q[1]

\* C9: an insert call that repeats the path and the value of the insert call
\* just before it leaves the mapping as that call left it, for every path, the
\* empty one and those that meet a string or a mapping on the way included.
Idempotent == rep = "pair" => tree = prev

InsertedTwice ==
    rep = "pair" /\ Len(last.path) > 1 /\ tree = prev /\ Resolve(tree, last.path) = Leaf(last.val)

\* C10: no mapping below the root is empty, after any insert calls.
NoEmptyInterior == EmptyInteriors(tree) = {}

InteriorCreated ==
    /\ n > 0
    /\ Len(last.path) > 1
    /\ Resolve(prev, <<last.path[1]>>) = Absent
    /\ Resolve(tree, <<last.path[1]>>).kind = "map"

---------------------------------------------------------------------------
(* Claims about format, under SpecFormat *)

Formatted == pc = "formatted"

\* The data of the Writes made, in order.
Written(log) == [i \in 1..Len(log) |-> log[i].data]

RECURSIVE Flatten(_)
Flatten(datas) == IF Len(datas) = 0 THEN <<>> ELSE Head(datas) \o Flatten(Tail(datas))

Depths == 0..MaxPathLen

\* The Writes of keys there can be: the depth, the key and the data written.
KeyLines == {<<d, k, KeyLine(d, k)>> : d \in Depths, k \in FmtKeys}

\* For each Write its depth and its key, when it is a key's, and <<-1, <<>>>>
\* otherwise.
KeysWritten(datas) ==
    [i \in 1..Len(datas) |->
        IF \E e \in KeyLines : e[3] = datas[i]
        THEN LET e == CHOOSE e \in KeyLines : e[3] = datas[i] IN <<e[1], e[2]>>
        ELSE <<-1, <<>>>>]

\* Two Writes of keys of one block, none of the block between them: both at one
\* depth, and every key written between them deeper.
NextSibling(keys, i, j) ==
    /\ i < j
    /\ keys[i][1] >= 0
    /\ keys[j][1] = keys[i][1]
    /\ \A l \in (i + 1)..(j - 1) : keys[l][1] = -1 \/ keys[l][1] > keys[i][1]

\* One of the orders a map iteration can yield the keys in.
AnyIter == CHOOSE iter \in Iters : TRUE

\* C5: format writes the keys of every mapping, at every depth, in strictly
\* ascending order of the keys, and whatever order the map iteration yields the
\* keys in, it writes and returns what it does for one given order.
SortedAndDeterministic ==
    Formatted =>
        LET keys == KeysWritten(Written(out.w.log))
        IN  /\ \A i \in DOMAIN keys, j \in DOMAIN keys :
                   NextSibling(keys, i, j) => LexLess(keys[i][2], keys[j][2])
            /\ out = format(Sink(out.w.failAt, out.w.failErr), tree, 0, AnyIter)

\* A nested mapping of more than one key was written in full.
NestedSiblingsWritten ==
    /\ Formatted
    /\ out.err = Nil
    /\ \E k \in DOMAIN tree.m :
           tree.m[k].kind = "map" /\ Cardinality(DOMAIN tree.m[k].m) > 1
    /\ LET keys == KeysWritten(Written(out.w.log))
       IN  \E i \in DOMAIN keys, j \in DOMAIN keys :
               NextSibling(keys, i, j) /\ keys[i][1] > 0

IsNestedClose(data) == \E d \in Depths \ {0} : data = CloseLine(d)

\* The mappings below the root, as paths.
RECURSIVE InteriorsOf(_)
InteriorsOf(node) ==
    UNION {
        IF node.m[k].kind # "map" THEN {}
        ELSE {<<k>>} \cup {<<k>> \o e : e \in InteriorsOf(node.m[k])} : k \in DOMAIN node.m}

\* C6: in what format(sink, tree, 0) writes when no Write fails, the root's closing
\* brace is followed by the newline alone and ends the output, the closing brace
\* of every nested mapping is followed by ";" and the newline, every leaf
\* assignment ends with ");" and the newline, and the empty mapping gives "{\n}\n".
StatementTermination ==
    (Formatted /\ out.err = Nil) =>
        LET datas == Written(out.w.log)
            len == Len(datas)
        IN  /\ len >= 3
            /\ datas[len - 1] = CloseLine(0)
            /\ datas[len] = Newline
            /\ \A i \in 1..len : datas[i] = CloseLine(0) => i = len - 1
            /\ \A i \in 1..len :
                   IsNestedClose(datas[i])
                       => i + 2 <= len /\ datas[i + 1] = Semicolon /\ datas[i + 2] = Newline
            /\ Cardinality({i \in 1..len : IsNestedClose(datas[i])})
                   = Cardinality(InteriorsOf(tree))
            /\ \A i \in 1..len : datas[i] = Semicolon => IsNestedClose(datas[i - 1])
            /\ \A i \in 1..len :
                   HasPrefix(datas[i], InsertTextOpen) => HasSuffix(datas[i], InsertTextClose)
            /\ Cardinality({i \in 1..len : HasPrefix(datas[i], InsertTextOpen)})
                   = Cardinality(LeavesOf(tree))
            /\ tree = MakeMap => Flatten(datas) = <<123, 10, 125, 10>>

NestedBlockClosed ==
    /\ Formatted
    /\ out.err = Nil
    /\ \E i \in 1..Len(out.w.log) : IsNestedClose(out.w.log[i].data)
    /\ \E i \in 1..Len(out.w.log) : HasPrefix(out.w.log[i].data, InsertTextOpen)

\* The number of Writes format makes when none fails.
FullLength == Len(format(Sink(0, Nil), tree, 0, AnyIter).w.log)

\* C7: when a Write of the sink fails, format makes no Write after it and the call
\* at depth 0 returns the error that Write returned; when none fails, format
\* returns nil.
WriteFailureAborts ==
    Formatted =>
        LET log == out.w.log
            failed == {i \in 1..Len(log) : log[i].err # Nil}
        IN  /\ failed = {} => out.err = Nil /\ Len(log) = FullLength
            /\ failed # {} =>
                   /\ failed = {Len(log)}
                   /\ out.err = log[Len(log)].err
                   /\ out.err = out.w.failErr
            /\ (out.w.failAt >= 1 /\ out.w.failAt <= FullLength) => failed = {out.w.failAt}

\* A Write inside a nested mapping failed.
NestedWriteFailed ==
    /\ Formatted
    /\ out.err # Nil
    /\ Len(out.w.log) > 3
    /\ out.w.log[3].data = OpenBrace
    /\ \A i \in 1..Len(out.w.log) : ~IsNestedClose(out.w.log[i].data)

---------------------------------------------------------------------------
(* Claims about quote, under SpecQuote *)

Quoted == pc = "quoted"

\* `\u` and four digits, or `\U` and eight
IsUnicodeEscape(token) == HasPrefix(token, <<92, 117>>) \/ HasPrefix(token, <<92, 85>>)

NeedsUnicodeEscape(r) == IsUnicodeEscape(EscapedRune(r))

\* The part of the quoted string q that stands for the i-th rune of s.
TokenAt(q, s, i) ==
    LET start == 1 + Len(EscapedRunes(SubSeq(s, 1, i - 1)))
    IN  SubSeq(q, start + 1, start + Len(EscapedRune(s[i])))

UnicodeEscapes(s) == {i \in 1..Len(s) : NeedsUnicodeEscape(s[i])}

\* C8 as stated: wherever in the string a rune needs a Unicode escape, quote
\* gives that escape in upper case.
UnicodeEscapesUppercased ==
    Quoted =>
        \A i \in UnicodeEscapes(qin) : TokenAt(qout, qin, i) = ToUpper(EscapedRune(qin[i]))

\* The first rune of the string needs an escape of `\u` and four digits.
StartsWithShortEscape(s) == Len(s) > 0 /\ HasPrefix(EscapedRune(s[1]), <<92, 117>>)

\* C8 as amended: when the first rune of the string needs an escape of `\u` and
\* four digits, quote gives the whole escaped string in upper case, so every
\* Unicode escape in it; otherwise it gives the escaped string as strconv.Quote
\* writes it, the Unicode escapes after the first rune, and one of `\U` and eight
\* digits for the first rune, in lower case.
LeadingEscapeUppercased ==
    Quoted =>
        /\ StartsWithShortEscape(qin) =>
               /\ qout = ToUpper(StrconvQuote(qin))
               /\ \A i \in UnicodeEscapes(qin) :
                      TokenAt(qout, qin, i) = ToUpper(EscapedRune(qin[i]))
        /\ ~StartsWithShortEscape(qin) =>
               /\ qout = StrconvQuote(qin)
               /\ \A i \in UnicodeEscapes(qin) : TokenAt(qout, qin, i) = EscapedRune(qin[i])

LeadingEscapeQuoted ==
    /\ Quoted
    /\ StartsWithShortEscape(qin)
    /\ Cardinality(UnicodeEscapes(qin)) > 1
    /\ qout = ToUpper(StrconvQuote(qin))

===========================================================================
